---- MODULE Spec2Model ----
(***************************************************************************)
(* apollo-datasource-airtable: the DataLoader batch function, the record   *)
(* reconciliation and the caching facade of src/src/cache.js.              *)
(*                                                                         *)
(* A serialized loader key is modelled structurally: the string 'ALL' is   *)
(* [all |-> TRUE, obj |-> <<>>]; EJSON.stringify(o) of an object o is      *)
(* [all |-> FALSE, obj |-> o], o being the sequence of its properties in   *)
(* insertion order, each [name, arr, vals]: arr says whether the value is  *)
(* an array, vals holds its elements (a scalar is one element).            *)
(***************************************************************************)
EXTENDS Integers, Sequences, FiniteSets, TLC

\* ------------------------------------------------------------------ bounds
MaxCalls == 3
MaxBatches == 2

\* ------------------------------------------------------------ the data set
\* the slots of the calls in flight, oldest first; a call takes the first
\* free slot
Callers == {1, 2}

\* field names the lookups use, in the order Array.prototype.sort gives them
FieldNames == <<"id", "username">>

\* the remote table, in the order the store returns its records; r2 carries a
\* column named "id" in its field map, r1 does not
Table ==
  << [id |-> "r1", fields |-> ("username" :> "alice")],
     [id |-> "r2", fields |-> ("id" :> "r2" @@ "username" :> "bob")] >>

Ids == {"r1", "r2"}

\* an identifier no record of the table has
AbsentIds == {"r3"}

AllIds == Ids \cup AbsentIds

\* ttl option: 0 stands for an absent (falsy) ttl
Ttls == {0, 60}

Prop(n, a, v) == [name |-> n, arr |-> a, vals |-> v]

\* the field maps handed to findByFields / deleteFromCacheByFields
FieldMaps ==
  { << Prop("username", FALSE, <<"alice">>) >>,
    << Prop("id", TRUE, <<"r2">>), Prop("username", FALSE, <<"bob">>) >>,
    << Prop("username", FALSE, <<"bob">>), Prop("id", TRUE, <<"r2">>) >> }

\* ---------------------------------------------------------------- helpers
SeqToSet(s) == {s[i] : i \in 1..Len(s)}

\* String.prototype.toLowerCase on the strings of the data set
toLowerCase(s) ==
  CASE s = "Bob" -> "bob"
    [] s = "Alice" -> "alice"
    [] OTHER -> s

Names(obj) == [i \in 1..Len(obj) |-> obj[i].name]

\* Object.keys(o).sort(): the names of o in lexicographic order
SortedKeys(obj) ==
  SelectSeq(FieldNames, LAMBDA n : n \in SeqToSet(Names(obj)))

PropOf(obj, n) == obj[CHOOSE i \in 1..Len(obj) : obj[i].name = n]

EJSONstringify(obj) == [all |-> FALSE, obj |-> obj]

EJSONparse(key) == key.obj

ALL == [all |-> TRUE, obj |-> <<>>]

\* mapFieldsToFilters without the sort of cache.js:6: the field names in the
\* order the caller wrote them
mapFieldsUnsorted(filterFields) ==
  LET fieldsToFilters ==
        [i \in 1..Len(filterFields) |->
           Prop(filterFields[i].name, TRUE, filterFields[i].vals)]
  IN [loaderKey |-> EJSONstringify(fieldsToFilters),
      fieldsToFilters |-> fieldsToFilters]

\* cache.js:4-24
mapFieldsToFilters(filterFields) ==
  LET sortedFields == SortedKeys(filterFields)
      fieldsToFilters ==
        [i \in 1..Len(sortedFields) |->
           Prop(sortedFields[i], TRUE, PropOf(filterFields, sortedFields[i]).vals)]
  IN [loaderKey |-> EJSONstringify(fieldsToFilters),
      fieldsToFilters |-> fieldsToFilters]

\* --------------------------------------------------- the remote store
\* record._rawJson
rawJson(rec) == rec

\* the value the switch of cache.js:113 tests: RECORD_ID() for the reserved
\* name "id", the column {fieldName} otherwise ("" when the record has none)
Accessor(rec, fieldName) ==
  IF fieldName = "id" THEN rec.id
  ELSE IF fieldName \in DOMAIN rec.fields THEN rec.fields[fieldName] ELSE ""

\* (SWITCH(<accessor>, "v1", 1, ..., 0))=1
SwitchFormula(rec, clause) ==
  \E i \in 1..Len(clause.values) : Accessor(rec, clause.name) = clause.values[i]

\* table.select(params) drained to its last page: filterByFormula is the OR
\* of the clauses; select({view}).all() returns every record
RemoteSelect(query) ==
  IF query.all THEN Table
  ELSE SelectSeq(Table, LAMBDA rec :
         \E i \in 1..Len(query.clauses) : SwitchFormula(rec, query.clauses[i]))

\* --------------------------------------------------- the batch function
Filter(n, v, r) == [name |-> n, values |-> v, records |-> r]

\* cache.js:85-91: the first entry of filters whose sorted, joined key names
\* equal those of currObj; an entry of filters has exactly one key
HasExisting(filters, currObj) ==
  \E i \in 1..Len(filters) : <<filters[i].name>> = SortedKeys(currObj)

Existing(filters, currObj) ==
  filters[CHOOSE i \in 1..Len(filters) :
            /\ <<filters[i].name>> = SortedKeys(currObj)
            /\ \A j \in 1..(i - 1) : <<filters[j].name>> # SortedKeys(currObj)]

\* the object `fields` of cache.js:91: {} or the entry found. A property of
\* the entry found is a bare array (clause = FALSE); a property the loop adds
\* is a {values, formula} clause (clause = TRUE)
InitialFields(filters, currObj) ==
  IF HasExisting(filters, currObj)
  THEN LET e == Existing(filters, currObj)
       IN << [name |-> e.name, clause |-> FALSE, values |-> e.values] >>
  ELSE <<>>

HasField(fields, n) == \E i \in 1..Len(fields) : fields[i].name = n

FieldIndex(fields, n) == CHOOSE i \in 1..Len(fields) : fields[i].name = n

\* cache.js:93-114: one pass of the loop per property of currObj. The
\* `values` of a bare array is Array.prototype.values, a function; spreading
\* it at cache.js:105-108 throws a TypeError: it is not iterable
RECURSIVE AddFields(_, _, _)
AddFields(fields, currObj, i) ==
  IF i > Len(currObj) THEN [threw |-> FALSE, fields |-> fields]
  ELSE LET p == currObj[i]
           wrappedValues == p.vals
       IN IF ~HasField(fields, p.name)
          THEN AddFields(Append(fields, [name |-> p.name, clause |-> TRUE,
                                         values |-> wrappedValues]),
                         currObj, i + 1)
          ELSE LET k == FieldIndex(fields, p.name)
               IN IF fields[k].clause
                  THEN AddFields([fields EXCEPT ![k].values = @ \o wrappedValues],
                                 currObj, i + 1)
                  ELSE [threw |-> TRUE, fields |-> fields]

Consolidate(filters, currObj) ==
  AddFields(InitialFields(filters, currObj), currObj, 1)

\* cache.js:116-122: one entry of filters, and one formula, per property
PushedFilters(fields) ==
  [i \in 1..Len(fields) |-> Filter(fields[i].name, fields[i].values, <<>>)]

Clauses(fields) ==
  [i \in 1..Len(fields) |-> [name |-> fields[i].name, values |-> fields[i].values]]

\* ------------------------------------------------------- orderRecords
\* cache.js:36-60, the filter callback: "no" and "yes" are its return values,
\* "loop" is the do/while that never ends because no filter value matches
MatchRecord(fieldName, filterValues, result) ==
  IF fieldName \notin DOMAIN result.fields THEN "no"
  ELSE LET wrappedFilterValues ==
             [i \in 1..Len(filterValues) |-> toLowerCase(filterValues[i])]
           wrappedResultValue == << toLowerCase(result.fields[fieldName]) >>
       IN IF \E i \in 1..Len(wrappedFilterValues) :
               wrappedFilterValues[i] \in SeqToSet(wrappedResultValue)
          THEN "yes" ELSE "loop"

\* cache.js:26-63
orderRecords(fieldsToFilters, results) ==
  LET loops(f) == /\ f.name # "ALL"
                  /\ \E i \in 1..Len(results) :
                       MatchRecord(f.name, f.values, results[i]) = "loop"
      one(f) == IF f.name = "ALL" THEN f.records
                ELSE SelectSeq(results, LAMBDA r :
                       MatchRecord(f.name, f.values, r) = "yes")
  IN [diverges |-> \E i \in 1..Len(fieldsToFilters) : loops(fieldsToFilters[i]),
      lists |-> [i \in 1..Len(fieldsToFilters) |-> one(fieldsToFilters[i])]]

\* ------------------------------------------------------------ the state
VARIABLES
  cache,     \* the shared cache: cache key -> value
  memo,      \* DataLoader's promise cache: loader key -> promise
  batches,   \* the batches of the loader, oldest first
  callers,   \* the facade call each caller has in flight or has finished
  calls,     \* the number of facade calls made
  hist,      \* what has happened so far, for the properties that speak of it
  source     \* the AirtableDataSource instance

vars == <<cache, memo, batches, callers, calls, hist, source>>

\* values a promise resolves to and the cache holds
Value(k, r) == [kind |-> k, recs |-> r]
Undefined == Value("undefined", <<>>)
Absent == Value("absent", <<>>)
Null == Value("null", <<>>)

\* `if (cachedRecord)`: a record and an array are truthy, undefined is not
Truthy(v) == v.kind \in {"record", "list"}

\* cachePrefix + suffix, cache.js:142; the table name is the same in every key
CacheKey(k, id, key) == [kind |-> k, id |-> id, key |-> key]
IdCacheKey(id) == CacheKey("id", id, ALL)
FieldsCacheKey(loaderKey) == CacheKey("key", "", loaderKey)
AllCacheKey == CacheKey("all", "", ALL)
\* cachePrefix + loader: the loader object converted to a string
LoaderObjectCacheKey == CacheKey("[object Object]", "", ALL)

IdLoaderKey(id) == EJSONstringify(<< Prop("id", FALSE, <<id>>) >>)

LoaderKeys ==
  {ALL} \cup {IdLoaderKey(id) : id \in AllIds}
        \cup {mapFieldsToFilters(f).loaderKey : f \in FieldMaps}

CacheKeys ==
  {AllCacheKey, LoaderObjectCacheKey}
    \cup {IdCacheKey(id) : id \in AllIds}
    \cup {FieldsCacheKey(mapFieldsToFilters(f).loaderKey) : f \in FieldMaps}

NoPromise == [b |-> 0, i |-> 0]

IdLists == {<<"r2", "r1">>}

\* how: whether the call was answered from the shared cache ("cache"), by a
\* promise the loader had memoized ("memo") or by a new key of a batch
\* ("batch"); afterAll, afterDelete: what hist said when the call started
Thread(id, key, ckey, pc) ==
  [id |-> id, key |-> key, ckey |-> ckey, pc |-> pc, promise |-> NoPromise,
   value |-> Absent, error |-> "", how |-> "", setFailed |-> FALSE,
   afterAll |-> hist.allDone,
   afterDelete |-> id \in Ids /\ hist.resolved[id] /\ hist.deleted[id]]

\* options: whether the call was given its options argument
Idle ==
  [op |-> "none", ttl |-> 0, options |-> TRUE, fields |-> <<>>,
   threads |-> <<>>, error |-> ""]

\* -------------------------------------------------- AirtableDataSource
\* the tables a data source is constructed with
Tables == {"users", "posts"}

\* the repository holds the class twice: src/src/datasource.js and
\* src/unnamed/part_000
Variants == {"datasource.js", "part_000"}

\* what createCachingMethods returns, cache.js:144-223
Methods ==
  {"findOneById", "findManyByIds", "findByFields", "findAll",
   "deleteFromCacheById", "deleteFromCacheByFields"}

\* the argument of initialize: none, or an object that may hold a context
\* and a cache
NoConfig == [given |-> FALSE, context |-> "undefined", cache |-> "undefined"]

Configs ==
  {NoConfig} \cup
  {[given |-> TRUE, context |-> x, cache |-> y] :
     x \in {"undefined", "context"}, y \in {"undefined", "cache"}}

\* datasource.js:7-10: new AirtableDataSource(table); passed is the argument
Constructed(variant, table) ==
  [variant |-> variant, passed |-> table, table |-> table, context |-> "unset",
   methods |-> {}, initialized |-> FALSE, error |-> ""]

\* datasource.js:13-22 and part_000:13-23: a missing config defaults to {},
\* whose context and cache are undefined. part_000:18 reads
\* this.context.Airtable, which throws a TypeError when context is
\* undefined, before the methods are assigned
initialize(src, config) ==
  LET s1 == [src EXCEPT !.context = config.context, !.initialized = TRUE]
  IN IF src.variant = "part_000" /\ config.context = "undefined"
     THEN [s1 EXCEPT !.error = "TypeError"]
     ELSE [s1 EXCEPT !.methods = Methods]

\* the state createCachingMethods sets up
Fresh ==
  /\ cache = [k \in CacheKeys |-> Absent]
  /\ memo = [k \in LoaderKeys |-> NoPromise]
  /\ batches = <<>>
  /\ callers = [c \in Callers |-> Idle]
  /\ calls = 0
  /\ hist = [allDone |-> FALSE,
             resolved |-> [id \in AllIds |-> FALSE],
             deleted |-> [id \in AllIds |-> FALSE]]

\* a data source of src/src/datasource.js, constructed and initialized as
\* the test does: new TestDataSource(testTable), initialize()
Init ==
  /\ Fresh
  /\ source = initialize(Constructed("datasource.js", "users"), NoConfig)

\* a data source constructed and not yet initialized
InitConstructed ==
  /\ Fresh
  /\ source \in {Constructed(v, t) : v \in Variants, t \in Tables}

\* ---------------------------------------------- the state of a facade call
Settled(t) == t.pc \in {"done", "failed"}

Running(c) == \E i \in 1..Len(callers[c].threads) : ~Settled(callers[c].threads[i])

\* the promise the facade method returned: Promise.all of the threads
Rejected(c) == \E i \in 1..Len(callers[c].threads) : callers[c].threads[i].pc = "failed"

Resolved(c) ==
  /\ callers[c].op # "none"
  /\ \A i \in 1..Len(callers[c].threads) : callers[c].threads[i].pc = "done"

\* a settled call is handed back to its caller before anything else happens
Unreturned(c) == callers[c].op # "none" /\ ~Running(c)

NoneUnreturned == \A c \in Callers : ~Unreturned(c)

\* the cache is the InMemoryLRUCache of datasource.js:18 unless another is
\* passed: its get, set and delete act when called and their promises settle
\* in the same turn of the event loop, before any other call, any dispatch
\* and any answer of the remote store
CacheBusy ==
  \E c \in Callers : \E i \in 1..Len(callers[c].threads) :
    callers[c].threads[i].pc \in {"get", "delete"}

Quiet == NoneUnreturned /\ ~CacheBusy

\* the methods exist once initialize has assigned them to the instance
CanCall(c) ==
  /\ source.methods = Methods
  /\ callers[c].op = "none"
  /\ \A d \in Callers : d < c => callers[d].op # "none"
  /\ Quiet
  /\ calls < MaxCalls

Start(c, op, ttl, fields, threads) ==
  /\ callers' = [callers EXCEPT ![c] =
       [op |-> op, ttl |-> ttl, options |-> TRUE, fields |-> fields,
        threads |-> threads, error |-> ""]]
  /\ calls' = calls + 1

\* ------------------------------------------------------------ initialize
Initialize(config) ==
  /\ ~source.initialized
  /\ source' = initialize(source, config)
  /\ UNCHANGED <<cache, memo, batches, callers, calls, hist>>

\* ---------------------------------------------------------- the facade
\* cache.js:145-148, up to `await cache.get(cacheKey)`
FindOneById(c, id, ttl) ==
  /\ CanCall(c)
  /\ Start(c, "findOneById", ttl, <<>>,
           << Thread(id, IdLoaderKey(id), IdCacheKey(id), "get") >>)
  /\ hist' = [hist EXCEPT !.deleted[id] = FALSE]
  /\ UNCHANGED <<cache, memo, batches, source>>

\* cache.js:145 called with one argument: binding the parameter { ttl } to
\* undefined throws a TypeError, which rejects the promise the async
\* function returns; nothing of its body runs
FindOneByIdNoOptions(c, id) ==
  /\ CanCall(c)
  /\ callers' = [callers EXCEPT ![c] =
       [op |-> "findOneById", ttl |-> 0, options |-> FALSE, fields |-> <<>>,
        threads |-> << [Thread(id, IdLoaderKey(id), IdCacheKey(id), "failed")
                          EXCEPT !.error = "TypeError"] >>,
        error |-> "TypeError"]]
  /\ calls' = calls + 1
  /\ UNCHANGED <<cache, memo, batches, hist, source>>

\* cache.js:165-167: every findOneById runs up to its first await
FindManyByIds(c, ids, ttl) ==
  /\ CanCall(c)
  /\ Start(c, "findManyByIds", ttl, <<>>,
           [i \in 1..Len(ids) |->
              Thread(ids[i], IdLoaderKey(ids[i]), IdCacheKey(ids[i]), "get")])
  /\ hist' = [hist EXCEPT !.deleted =
                [id \in AllIds |-> IF id \in SeqToSet(ids) THEN FALSE ELSE @[id]]]
  /\ UNCHANGED <<cache, memo, batches, source>>

\* cache.js:168-174
FindByFields(c, filterFields, ttl) ==
  LET loaderKey == mapFieldsToFilters(filterFields).loaderKey
  IN /\ CanCall(c)
     /\ Start(c, "findByFields", ttl, filterFields,
              << Thread("", loaderKey, FieldsCacheKey(loaderKey), "get") >>)
     /\ UNCHANGED <<cache, memo, batches, hist, source>>

\* cache.js:192-195
FindAll(c, ttl) ==
  /\ CanCall(c)
  /\ Start(c, "findAll", ttl, <<>>, << Thread("", ALL, AllCacheKey, "get") >>)
  /\ UNCHANGED <<cache, memo, batches, hist, source>>

\* loader.clearAll() in the place of loader.clear(key)
ClearAll(m, key) == [k \in LoaderKeys |-> NoPromise]

\* loader.clear(key)
Clear(m, key) == [m EXCEPT ![key] = NoPromise]

\* the cache key deleteFromCacheById deletes, cache.js:212
DeleteByIdCacheKey(id) == IdCacheKey(id)

\* the cache key deleteFromCacheByFields deletes, cache.js:217
DeleteByFieldsCacheKey(loaderKey) == LoaderObjectCacheKey

\* cache.js:210-213, up to `await cache.delete(cacheKey)`
DeleteFromCacheById(c, id) ==
  /\ CanCall(c)
  /\ memo' = Clear(memo, IdLoaderKey(id))
  /\ Start(c, "deleteFromCacheById", 0, <<>>,
           << Thread(id, IdLoaderKey(id), DeleteByIdCacheKey(id), "delete") >>)
  /\ UNCHANGED <<cache, batches, hist, source>>

\* cache.js:215-219, up to `await cache.delete(cacheKey)`
DeleteFromCacheByFields(c, filterFields) ==
  LET loaderKey == mapFieldsToFilters(filterFields).loaderKey
  IN /\ CanCall(c)
     /\ memo' = Clear(memo, loaderKey)
     /\ Start(c, "deleteFromCacheByFields", 0, filterFields,
              << Thread("", loaderKey, DeleteByFieldsCacheKey(loaderKey), "delete") >>)
     /\ UNCHANGED <<cache, batches, hist, source>>

\* ------------------------------------------------- the batch function
\* selects: the keys (by position) for which table.select has been called
NewBatch(key) ==
  [keys |-> <<key>>, status |-> "open", idx |-> 0, filters |-> <<>>,
   results |-> <<>>, query |-> [all |-> FALSE, clauses |-> <<>>],
   selects |-> <<>>, values |-> <<>>, error |-> ""]

\* cache.js:72-135 for the key at b.idx, up to the await of its select
RunFrom(b) ==
  LET curr == b.keys[b.idx]
  IN IF curr = ALL
     THEN [b EXCEPT !.status = "select",
                    !.query = [all |-> TRUE, clauses |-> <<>>],
                    !.selects = Append(@, b.idx)]
     ELSE LET r == Consolidate(b.filters, EJSONparse(curr))
          IN IF r.threw
             THEN [b EXCEPT !.status = "failed", !.error = "TypeError"]
             ELSE [b EXCEPT !.status = "select",
                            !.filters = @ \o PushedFilters(r.fields),
                            !.query = [all |-> FALSE, clauses |-> Clauses(r.fields)],
                            !.selects = Append(@, b.idx)]

\* cache.js:139 and DataLoader's check of what the batch function returned:
\* an array of another length than keys rejects every key
Finish(b) ==
  LET o == orderRecords(b.filters, b.results)
  IN IF o.diverges THEN [b EXCEPT !.status = "hung"]
     ELSE IF Len(o.lists) # Len(b.keys)
     THEN [b EXCEPT !.status = "failed", !.error = "TypeError"]
     ELSE [b EXCEPT !.status = "done", !.values = o.lists]

\* cache.js:78-80 and 129-135: the records of the select arrive, and the
\* loop goes on to the next key or returns
AfterSelect(b, records) ==
  LET raw == [i \in 1..Len(records) |-> rawJson(records[i])]
      b1 == IF b.query.all
            THEN [b EXCEPT !.filters = Append(@, Filter("ALL", <<>>, raw))]
            ELSE [b EXCEPT !.results = @ \o raw]
      b2 == [b1 EXCEPT !.idx = @ + 1]
  IN IF b2.idx <= Len(b2.keys) THEN RunFrom(b2) ELSE Finish(b2)

\* a rejected select rejects the batch function: nothing catches it
SelectFailed(b) == [b EXCEPT !.status = "failed", !.error = "RemoteError"]

\* DataLoader clears every key of a failed batch from its promise cache
ClearFailed(m, b) ==
  IF b.status = "failed"
  THEN [k \in LoaderKeys |-> IF k \in SeqToSet(b.keys) THEN NoPromise ELSE m[k]]
  ELSE m

\* ------------------------------------------ the facade after loader.load
\* the methods whose cached value is returned when it is truthy
ReturnsCached(op) == op \in {"findOneById", "findManyByIds", "findAll"}

\* the methods that store what they loaded when ttl is truthy
StoresLoaded(op) == op \in {"findOneById", "findManyByIds", "findAll"}

\* what the method returns from the list the loader resolved to
Loaded(op, list) ==
  IF op \in {"findOneById", "findManyByIds"}
  THEN IF list = <<>> THEN Undefined ELSE Value("record", <<list[1]>>)
  ELSE Value("list", list)

\* `if (ttl)` dropped: the method stores whatever its ttl is
SetsWhateverTtl(call) == StoresLoaded(call.op)

Sets(call) == StoresLoaded(call.op) /\ call.ttl # 0

\* cache.js:155-163, 184-190 and 202-208: the method after its await of
\* loader.load, the promise being settled as batch b says. cache.set is not
\* awaited: when it fails (setOk = FALSE) nobody observes the rejection
Resume(call, t, b, setOk) ==
  IF b.status = "failed"
  THEN [t EXCEPT !.pc = "failed", !.error = b.error]
  ELSE [t EXCEPT !.pc = "done", !.value = Loaded(call.op, b.values[t.promise.i]),
                 !.setFailed = Sets(call) /\ ~setOk]

Waits(t, n) == t.pc = "load" /\ t.promise.b = n

FirstError(threads) ==
  IF \E i \in 1..Len(threads) : threads[i].pc = "failed"
  THEN threads[CHOOSE i \in 1..Len(threads) :
                 /\ threads[i].pc = "failed"
                 /\ \A j \in 1..(i - 1) : threads[j].pc # "failed"].error
  ELSE ""

\* batch n has settled as b: every method awaiting one of its promises runs
\* on, in the same turn of the event loop
ResumeAll(cs, n, b, setOk) ==
  [c \in Callers |->
     LET ts == [i \in 1..Len(cs[c].threads) |->
                  IF Waits(cs[c].threads[i], n)
                  THEN Resume(cs[c], cs[c].threads[i], b, setOk)
                  ELSE cs[c].threads[i]]
     IN [cs[c] EXCEPT !.threads = ts,
                      !.error = IF @ = "" THEN FirstError(ts) ELSE @]]

\* the cache.set calls of the methods ResumeAll runs on
StoreAll(ch, cs, n, b, setOk) ==
  [k \in CacheKeys |->
     IF /\ b.status = "done"
        /\ setOk
        /\ \E c \in Callers : \E i \in 1..Len(cs[c].threads) :
             Waits(cs[c].threads[i], n) /\ Sets(cs[c]) /\ cs[c].threads[i].ckey = k
     THEN LET c == CHOOSE c \in Callers : \E i \in 1..Len(cs[c].threads) :
                     Waits(cs[c].threads[i], n) /\ Sets(cs[c]) /\ cs[c].threads[i].ckey = k
              i == CHOOSE i \in 1..Len(cs[c].threads) :
                     Waits(cs[c].threads[i], n) /\ Sets(cs[c]) /\ cs[c].threads[i].ckey = k
          IN Loaded(cs[c].op, b.values[cs[c].threads[i].promise.i])
     ELSE ch[k]]

\* hist after the calls of cs have got this far
Seen(h, cs) ==
  [h EXCEPT
     !.allDone = @ \/ \E c \in Callers :
                        cs[c].op = "findAll" /\ cs[c].threads[1].pc = "done",
     !.resolved = [id \in AllIds |-> @[id] \/
                     \E c \in Callers : \E i \in 1..Len(cs[c].threads) :
                       /\ cs[c].op \in {"findOneById", "findManyByIds"}
                       /\ cs[c].ttl # 0
                       /\ cs[c].threads[i].id = id
                       /\ cs[c].threads[i].pc = "done"
                       /\ cs[c].threads[i].value.kind = "record"]]

SomeSet(cs, n) ==
  \E c \in Callers : \E i \in 1..Len(cs[c].threads) :
    Waits(cs[c].threads[i], n) /\ Sets(cs[c])

\* batch n takes a step to b; if that settles it, its waiters run on
BatchStep(n, b, setOk) ==
  /\ batches' = [batches EXCEPT ![n] = b]
  /\ memo' = ClearFailed(memo, b)
  /\ IF b.status \in {"done", "failed"}
     THEN /\ setOk \/ (b.status = "done" /\ SomeSet(callers, n))
          /\ callers' = ResumeAll(callers, n, b, setOk)
          /\ cache' = StoreAll(cache, callers, n, b, setOk)
     ELSE /\ setOk
          /\ UNCHANGED <<callers, cache>>
  /\ hist' = Seen(hist, callers')
  /\ UNCHANGED <<calls, source>>

\* DataLoader dispatches the batch: no later load joins it
Dispatch(n, setOk) ==
  /\ Quiet
  /\ n \in 1..Len(batches)
  /\ batches[n].status = "open"
  /\ BatchStep(n, RunFrom([batches[n] EXCEPT !.idx = 1]), setOk)

\* the select the batch function awaits settles
SelectReturn(n, ok, setOk) ==
  /\ Quiet
  /\ n \in 1..Len(batches)
  /\ batches[n].status = "select"
  /\ BatchStep(n, IF ok THEN AfterSelect(batches[n], RemoteSelect(batches[n].query))
                  ELSE SelectFailed(batches[n]), setOk)

\* ------------------------------------------------------- DataLoader.load
HasOpenBatch == batches # <<>> /\ batches[Len(batches)].status = "open"

SetThread(c, i, t) ==
  callers' = [callers EXCEPT
    ![c].threads[i] = t,
    ![c].error = IF @ = "" /\ t.pc = "failed" THEN t.error ELSE @]

\* `await cache.get(cacheKey)` settles and the method runs on to its next
\* await: a truthy cached value is returned, otherwise loader.load(key) is
\* called: the memoized promise, or a new key of the batch not yet dispatched
CacheGetReturn(c, i, ok, setOk) ==
  /\ NoneUnreturned
  /\ i \in 1..Len(callers[c].threads)
  /\ LET t == callers[c].threads[i]
         call == callers[c]
     IN /\ t.pc = "get"
        /\ \A j \in 1..(i - 1) : callers[c].threads[j].pc # "get"
        /\ IF ~ok
           THEN /\ setOk
                /\ SetThread(c, i, [t EXCEPT !.pc = "failed", !.error = "CacheError"])
                /\ UNCHANGED <<memo, batches, cache>>
           ELSE IF ReturnsCached(call.op) /\ Truthy(cache[t.ckey])
           THEN /\ setOk
                /\ SetThread(c, i, [t EXCEPT !.pc = "done", !.value = cache[t.ckey],
                                             !.how = "cache"])
                /\ UNCHANGED <<memo, batches, cache>>
           ELSE IF memo[t.key] # NoPromise
           THEN LET b == batches[memo[t.key].b]
                    t1 == [t EXCEPT !.pc = "load", !.promise = memo[t.key],
                                    !.how = "memo"]
                IN IF b.status = "done"
                   THEN \* the memoized promise is settled already
                        /\ setOk \/ Sets(call)
                        /\ SetThread(c, i, Resume(call, t1, b, setOk))
                        /\ cache' = IF Sets(call) /\ setOk
                                    THEN [cache EXCEPT ![t.ckey] =
                                            Loaded(call.op, b.values[t1.promise.i])]
                                    ELSE cache
                        /\ UNCHANGED <<memo, batches>>
                   ELSE /\ setOk
                        /\ SetThread(c, i, t1)
                        /\ UNCHANGED <<memo, batches, cache>>
           ELSE IF HasOpenBatch
           THEN LET b == Len(batches)
                    p == [b |-> b, i |-> Len(batches[b].keys) + 1]
                IN /\ setOk
                   /\ batches' = [batches EXCEPT ![b].keys = Append(@, t.key)]
                   /\ memo' = [memo EXCEPT ![t.key] = p]
                   /\ SetThread(c, i, [t EXCEPT !.pc = "load", !.promise = p,
                                                !.how = "batch"])
                   /\ UNCHANGED cache
           ELSE LET p == [b |-> Len(batches) + 1, i |-> 1]
                IN /\ setOk
                   /\ Len(batches) < MaxBatches
                   /\ batches' = Append(batches, NewBatch(t.key))
                   /\ memo' = [memo EXCEPT ![t.key] = p]
                   /\ SetThread(c, i, [t EXCEPT !.pc = "load", !.promise = p,
                                                !.how = "batch"])
                   /\ UNCHANGED cache
  /\ hist' = Seen(hist, callers')
  /\ UNCHANGED <<calls, source>>

\* `await cache.delete(cacheKey)` settles
CacheDeleteReturn(c, ok) ==
  /\ NoneUnreturned
  /\ Len(callers[c].threads) = 1
  /\ LET t == callers[c].threads[1]
     IN /\ t.pc = "delete"
        /\ IF ok
           THEN /\ cache' = [cache EXCEPT ![t.ckey] = Absent]
                /\ SetThread(c, 1, [t EXCEPT !.pc = "done"])
                /\ hist' = IF callers[c].op = "deleteFromCacheById"
                           THEN [hist EXCEPT !.deleted[t.id] = TRUE] ELSE hist
           ELSE /\ UNCHANGED <<cache, hist>>
                /\ SetThread(c, 1, [t EXCEPT !.pc = "failed", !.error = "CacheError"])
  /\ UNCHANGED <<memo, batches, calls, source>>

\* the caller takes the settled promise: the call leaves the calls in flight,
\* and those behind it move up
Return(c) ==
  /\ Unreturned(c)
  /\ callers' = [k \in Callers |->
                   IF k < c THEN callers[k]
                   ELSE IF k + 1 \in Callers THEN callers[k + 1] ELSE Idle]
  /\ UNCHANGED <<cache, memo, batches, calls, hist, source>>

\* the steps every call goes through
Steps ==
  \/ \E c \in Callers, i \in 1..2, ok \in BOOLEAN, setOk \in BOOLEAN :
       CacheGetReturn(c, i, ok, setOk)
  \/ \E n \in 1..MaxBatches, setOk \in BOOLEAN : Dispatch(n, setOk)
  \/ \E n \in 1..MaxBatches, ok \in BOOLEAN, setOk \in BOOLEAN :
       SelectReturn(n, ok, setOk)
  \/ \E c \in Callers, ok \in BOOLEAN : CacheDeleteReturn(c, ok)
  \/ \E c \in Callers : Return(c)

\* the lookups by id and of all records, and their invalidation
NextById ==
  \/ \E c \in Callers, id \in Ids, ttl \in Ttls : FindOneById(c, id, ttl)
  \/ \E c \in Callers, ids \in IdLists, ttl \in Ttls : FindManyByIds(c, ids, ttl)
  \/ \E c \in Callers, ttl \in Ttls : FindAll(c, ttl)
  \/ \E c \in Callers, id \in Ids : DeleteFromCacheById(c, id)
  \/ Steps

\* the lookups by fields beside those by id, and their invalidation
NextByFields ==
  \/ \E c \in Callers, id \in Ids, ttl \in Ttls : FindOneById(c, id, ttl)
  \/ \E c \in Callers, f \in FieldMaps, ttl \in Ttls : FindByFields(c, f, ttl)
  \/ \E c \in Callers, f \in FieldMaps : DeleteFromCacheByFields(c, f)
  \/ Steps

\* the four lookups with no ttl or a ttl of zero, the lookup of an absent id
\* and the lookup called without options among them; no invalidation. The
\* shared cache answers every get; the remote store may fail
NextLookups ==
  \/ \E c \in Callers, id \in AllIds : FindOneById(c, id, 0)
  \/ \E c \in Callers, id \in Ids : FindOneByIdNoOptions(c, id)
  \/ \E c \in Callers, ids \in IdLists : FindManyByIds(c, ids, 0)
  \/ \E c \in Callers, f \in FieldMaps : FindByFields(c, f, 0)
  \/ \E c \in Callers : FindAll(c, 0)
  \/ \E c \in Callers, i \in 1..2 : CacheGetReturn(c, i, TRUE, TRUE)
  \/ \E n \in 1..MaxBatches : Dispatch(n, TRUE)
  \/ \E n \in 1..MaxBatches, ok \in BOOLEAN : SelectReturn(n, ok, TRUE)
  \/ \E c \in Callers : Return(c)

\* initialize, then lookups by id, the shared cache answering
NextInitialize ==
  \/ \E config \in Configs : Initialize(config)
  \/ \E c \in Callers, id \in Ids, ttl \in Ttls : FindOneById(c, id, ttl)
  \/ \E c \in Callers, i \in 1..2 : CacheGetReturn(c, i, TRUE, TRUE)
  \/ \E n \in 1..MaxBatches : Dispatch(n, TRUE)
  \/ \E n \in 1..MaxBatches, ok \in BOOLEAN : SelectReturn(n, ok, TRUE)
  \/ \E c \in Callers : Return(c)

Next == NextById \/ NextByFields \/ NextLookups \/ NextInitialize

Spec == Init /\ [][Next]_vars

SpecById == Init /\ [][NextById]_vars

SpecByFields == Init /\ [][NextByFields]_vars

SpecLookups == Init /\ [][NextLookups]_vars

SpecInitialize == InitConstructed /\ [][NextInitialize]_vars

\* ================================================================ claims
ById(c) == callers[c].op \in {"findOneById", "findManyByIds"}

ThreadsOf(c) == 1..Len(callers[c].threads)

\* the positions of batch b whose key is (all = TRUE) or is not 'ALL' and for
\* which table.select has been called, one entry per call
SelectCalls(b, all) ==
  {j \in 1..Len(b.selects) : (b.keys[b.selects[j]] = ALL) = all}

\* what findOneById(id) resolves to in a window of its own, the remote store
\* answering
AloneBatch(key) ==
  LET b == RunFrom([NewBatch(key) EXCEPT !.idx = 1])
  IN AfterSelect(b, RemoteSelect(b.query))

FindOneByIdAlone(id) ==
  Loaded("findOneById", AloneBatch(IdLoaderKey(id)).values[1])

\* every id of the call is a new key of one and the same batch
OneWindow(c) ==
  \A i \in ThreadsOf(c) :
    /\ callers[c].threads[i].how = "batch"
    /\ callers[c].threads[i].promise.b = callers[c].threads[1].promise.b

\* C1: a findManyByIds(ids) of two or more distinct uncached ids issued in
\* one window, the remote store answering, resolves (does not reject) to the
\* list whose i-th element is what findOneById(ids[i]) resolves to.
C1_ManyResolvesInOrder ==
  \A c \in Callers :
    ( /\ callers[c].op = "findManyByIds"
      /\ ~Running(c)
      /\ OneWindow(c)
      /\ batches[callers[c].threads[1].promise.b].error # "RemoteError" )
    => /\ Resolved(c)
       /\ \A i \in ThreadsOf(c) :
            callers[c].threads[i].value = FindOneByIdAlone(callers[c].threads[i].id)

\* C2: a findOneById(id) that nothing cached answers resolves to the record
\* of the table whose intrinsic identifier is id.
C2_FindsByRecordId ==
  \A c \in Callers : \A i \in ThreadsOf(c) :
    \A k \in 1..Len(Table) :
      ( /\ ById(c)
        /\ callers[c].threads[i].how = "batch"
        /\ callers[c].threads[i].pc = "done"
        /\ Table[k].id = callers[c].threads[i].id )
      => callers[c].threads[i].value = Value("record", << rawJson(Table[k]) >>)

\* C3: in every window table.select is called at most once for all the keys
\* other than 'ALL' together, and at most once for 'ALL'.
C3_OneSelectPerWindow ==
  \A n \in 1..Len(batches) :
    /\ Cardinality(SelectCalls(batches[n], FALSE)) <= 1
    /\ Cardinality(SelectCalls(batches[n], TRUE)) <= 1

\* C4: when a select of a window fails, no lookup of the window rejects: each
\* resolves, to an empty result (undefined for a lookup by id).
C4_RemoteFailureDegrades ==
  \A c \in Callers : \A i \in ThreadsOf(c) :
    LET t == callers[c].threads[i]
    IN (t.promise.b # 0 /\ batches[t.promise.b].error = "RemoteError")
       => /\ t.pc = "done"
          /\ t.value = Loaded(callers[c].op, <<>>)

\* C5: once findByFields(fields, {ttl}) with ttl > 0 has resolved on a cache
\* miss, the shared cache holds its result under cachePrefix + loaderKey.
C5_FindByFieldsStores ==
  \A c \in Callers :
    ( /\ callers[c].op = "findByFields"
      /\ callers[c].ttl # 0
      /\ callers[c].threads[1].pc = "done" )
    => cache[callers[c].threads[1].ckey] = callers[c].threads[1].value

\* C6: the entry deleteFromCacheByFields(fields) deletes from the shared
\* cache is the one findByFields(fields) looks up: cachePrefix + loaderKey.
C6_DeletesTheLookedUpEntry ==
  \A c \in Callers :
    callers[c].op = "deleteFromCacheByFields"
    => callers[c].threads[1].ckey =
         FieldsCacheKey(mapFieldsToFilters(callers[c].fields).loaderKey)

\* C7: a findOneById(id) that starts after a findAll() has resolved, for a
\* record the findAll returned, is answered without a new remote query: it
\* adds no key to a batch.
C7_FindAllPrimes ==
  \A c \in Callers : \A i \in ThreadsOf(c) :
    ( /\ ById(c)
      /\ callers[c].threads[i].afterAll
      /\ \E k \in 1..Len(Table) : Table[k].id = callers[c].threads[i].id )
    => callers[c].threads[i].how # "batch"

SameUpToOrder(f, g) == f # g /\ Len(f) = Len(g) /\ SeqToSet(f) = SeqToSet(g)

TwoFindByFields(c, d) ==
  /\ c # d
  /\ callers[c].op = "findByFields"
  /\ callers[d].op = "findByFields"
  /\ SameUpToOrder(callers[c].fields, callers[d].fields)

\* the number of times table.select was called for the key of promise p
QueriesFor(p) ==
  Cardinality({j \in 1..Len(batches[p.b].selects) : batches[p.b].selects[j] = p.i})

\* C9 as stated: two findByFields calls of one window whose field maps are
\* equal up to the order of the field names share one pending result.
C9_SameWindowShares ==
  \A c \in Callers, d \in Callers :
    ( /\ TwoFindByFields(c, d)
      /\ callers[c].threads[1].promise.b # 0
      /\ callers[c].threads[1].promise.b = callers[d].threads[1].promise.b )
    => callers[c].threads[1].promise = callers[d].threads[1].promise

\* the second of the two calls comes back from cache.get and calls
\* loader.load while the first is pending and the loader still memoizes the
\* promise of the first
SecondLoads(c, d) ==
  /\ TwoFindByFields(c, d)
  /\ callers[c].threads[1].pc = "load"
  /\ memo[callers[c].threads[1].key] = callers[c].threads[1].promise
  /\ callers[d].threads[1].pc = "get"
  /\ callers'[d].threads[1].pc \in {"load", "done"}

\* C9 as amended: two findByFields calls whose field maps are equal up to the
\* order of the field names, the second issued while the first is pending and
\* the loader still memoizes the promise of the first (no invalidation and no
\* failed batch has dropped it), share one pending result: the second adds
\* no key to any batch; and for their key table.select is called exactly
\* once, when the batch function reaches it.
C9_SharesOnePending ==
  /\ [][\A c \in Callers, d \in Callers :
          SecondLoads(c, d)
          => /\ callers'[d].threads[1].promise = callers[c].threads[1].promise
             /\ batches' = batches]_vars
  /\ [](\A c \in Callers :
          ( /\ callers[c].op = "findByFields"
            /\ Len(callers[c].fields) > 1
            /\ callers[c].threads[1].promise.b # 0 )
          => LET p == callers[c].threads[1].promise
             IN QueriesFor(p) = IF batches[p.b].idx >= p.i THEN 1 ELSE 0)

\* two such calls wait for the same promise and the select of their key has
\* been called
C9_Witness ==
  \E c \in Callers, d \in Callers :
    /\ TwoFindByFields(c, d)
    /\ callers[c].threads[1].pc = "load"
    /\ callers[d].threads[1].pc = "load"
    /\ callers[c].threads[1].promise = callers[d].threads[1].promise
    /\ QueriesFor(callers[c].threads[1].promise) = 1

\* the cache operation of thread t failed: its get or delete (the thread
\* rejected with the failure) or its set
CacheFailed(t) == t.error = "CacheError" \/ t.setFailed

\* C10: a failure of cache.get, cache.set or cache.delete rejects the facade
\* method that called it, with that failure.
C10_CacheFailurePropagates ==
  \A c \in Callers :
    (~Running(c) /\ \E i \in ThreadsOf(c) : CacheFailed(callers[c].threads[i]))
    => Rejected(c) /\ callers[c].error = "CacheError"

\* C11: findOneById(id) called without an options argument does not fail: it
\* resolves, as findOneById(id, {}) does.
C11_NoOptionsResolves ==
  \A c \in Callers :
    (callers[c].op = "findOneById" /\ ~callers[c].options /\ ~Running(c))
    => Resolved(c)

\* C12: a findOneById(id, {ttl}) of an id no record of the table has, the
\* shared cache and the remote store answering, never rejects: it resolves,
\* to null.
C12_AbsentIdResolvesNull ==
  \A c \in Callers : \A i \in ThreadsOf(c) :
    ( /\ ById(c)
      /\ callers[c].options
      /\ callers[c].threads[i].id \in AbsentIds
      /\ Settled(callers[c].threads[i])
      /\ callers[c].threads[i].error \notin {"CacheError", "RemoteError"} )
    => /\ callers[c].threads[i].pc = "done"
       /\ callers[c].threads[i].value = Null

\* C13: lookups whose ttl is absent or zero never write to the shared cache:
\* whatever findOneById, findManyByIds, findByFields and findAll calls are
\* made with such a ttl (SpecLookups makes no other), the shared cache stays
\* as it was, empty.
C13_NoTtlNoWrite == \A k \in CacheKeys : cache[k] = Absent

\* a lookup with a ttl of zero has loaded a record, or all of them, from the
\* remote store and has resolved to it
C13_Witness ==
  \E c \in Callers :
    /\ StoresLoaded(callers[c].op)
    /\ callers[c].options
    /\ callers[c].ttl = 0
    /\ Resolved(c)
    /\ callers[c].threads[1].how = "batch"
    /\ Truthy(callers[c].threads[1].value)

\* C14: once initialize has been called on a data source constructed with a
\* table, with or without a config argument, it has completed without error,
\* the instance exposes findOneById, findByFields, deleteFromCacheById and
\* deleteFromCacheByFields, and its table is the one passed to the
\* constructor.
C14_InitializeExposes ==
  source.initialized
  => /\ source.error = ""
     /\ {"findOneById", "findByFields", "deleteFromCacheById",
         "deleteFromCacheByFields"} \subseteq source.methods
     /\ source.table = source.passed

\* the keys at i and j of batch b are distinct and name the same one field
SameField(b, i, j) ==
  LET ki == b.keys[i]
      kj == b.keys[j]
  IN /\ i < j
     /\ ki # kj
     /\ ki # ALL /\ kj # ALL
     /\ Len(ki.obj) = 1 /\ Len(kj.obj) = 1
     /\ ki.obj[1].name = kj.obj[1].name

\* C15: when the batch function comes to a key that names the same field as
\* an earlier, distinct key of its window, it raises no error, and the query
\* it builds has one clause for the field, holding the values of both keys.
C15_SameFieldUnions ==
  \A n \in 1..Len(batches) :
    \A i \in 1..Len(batches[n].keys), j \in 1..Len(batches[n].keys) :
      (SameField(batches[n], i, j) /\ batches[n].idx = j)
      => /\ batches[n].error # "TypeError"
         /\ batches[n].status = "select"
            => \E k \in 1..Len(batches[n].query.clauses) :
                 LET cl == batches[n].query.clauses[k]
                 IN /\ cl.name = batches[n].keys[j].obj[1].name
                    /\ SeqToSet(batches[n].keys[i].obj[1].vals)
                         \cup SeqToSet(batches[n].keys[j].obj[1].vals)
                           \subseteq SeqToSet(cl.values)

\* C16: a batch function that returns, returns exactly one result list per
\* key of the window: DataLoader accepts what it returned.
C16_OneListPerKey ==
  \A n \in 1..Len(batches) :
    (batches[n].idx > Len(batches[n].keys) /\ batches[n].status # "hung")
    => /\ batches[n].status = "done"
       /\ Len(batches[n].values) = Len(batches[n].keys)

\* C17: the batch function terminates once its selects have completed: it
\* is never caught in a loop that does not end.
C17_BatchTerminates ==
  \A n \in 1..Len(batches) : batches[n].status # "hung"

\* record rec satisfies the filter of field map f: one of its fields holds
\* one of the values asked for
Matches(rec, f) ==
  \E i \in 1..Len(f) : Accessor(rec, f[i].name) \in SeqToSet(f[i].vals)

\* C18: a findByFields that has resolved holds each record of the table
\* matching its field map exactly once, in the order of the remote store.
C18_EachMatchOnce ==
  \A c \in Callers :
    (callers[c].op = "findByFields" /\ callers[c].threads[1].pc = "done")
    => callers[c].threads[1].value =
         Value("list", SelectSeq(Table, LAMBDA rec :
                                   Matches(rawJson(rec), callers[c].fields)))

\* C19: once deleteFromCacheById(id) has completed, and as long as no
\* findOneById(id) has started since, the shared cache holds no entry for
\* id: a findOneById(id, {ttl}) that was in flight does not store its record
\* afterwards.
C19_NoWriteAfterDelete ==
  \A id \in Ids : hist.deleted[id] => cache[IdCacheKey(id)] = Absent

\* caller c calls deleteFromCacheById(id) in this step
DeleteByIdStarts(c, id) ==
  /\ callers[c].op = "none"
  /\ callers'[c].op = "deleteFromCacheById"
  /\ callers'[c].threads[1].id = id

\* the cache.delete of caller c's deleteFromCacheById(id) settles in this step
DeleteByIdSettles(c, id) ==
  /\ callers[c].op = "deleteFromCacheById"
  /\ callers[c].threads[1].id = id
  /\ callers[c].threads[1].pc = "delete"
  /\ callers'[c].threads[1].pc # "delete"

\* C20: deleteFromCacheById(id) changes only the memo entry and the shared
\* cache entry of id: the call leaves every other memoized promise, the
\* batches and the shared cache as they are, and its cache.delete leaves
\* every other cache entry, the memoized promises and the batches as they
\* are.
C20_DeleteByIdFrame ==
  [][\A c \in Callers, id \in Ids :
       /\ DeleteByIdStarts(c, id)
          => /\ \A k \in LoaderKeys \ {IdLoaderKey(id)} : memo'[k] = memo[k]
             /\ cache' = cache
             /\ batches' = batches
       /\ DeleteByIdSettles(c, id)
          => /\ \A k \in CacheKeys \ {IdCacheKey(id)} : cache'[k] = cache[k]
             /\ memo' = memo
             /\ batches' = batches]_vars

\* a deleteFromCacheById(id) has completed while the loader memoizes the
\* promise of another id and the shared cache holds the record of that id
C20_Witness ==
  \E c \in Callers, id \in Ids :
    /\ callers[c].op = "deleteFromCacheById"
    /\ callers[c].threads[1].pc = "done"
    /\ callers[c].threads[1].id # id
    /\ memo[IdLoaderKey(id)] # NoPromise
    /\ Truthy(cache[IdCacheKey(id)])

====
